---- MODULE Spec2Model ----
(***************************************************************************)
(* Model of the live duplex audio session engine of src/App.tsx            *)
(* (component LiveAgent): startConversation, the transport callbacks       *)
(* onopen / onmessage, the playback completion callback onended,           *)
(* stopConversation and the effect cleanup.                                *)
(*                                                                         *)
(* Time is counted in ticks of the AudioContext clock (currentTime).       *)
(* Every call of startConversation has an index k; the microphone stream,  *)
(* the pair of AudioContexts and the transport session that this call      *)
(* creates carry the same index.  A reference holding 0 is null.           *)
(***************************************************************************)
EXTENDS Integers, Sequences, FiniteSets, TLC

\* ---- bounds of the model ------------------------------------------------
MaxStarts == 2      \* calls of startConversation
MaxMsgs   == 2      \* server messages delivered to onmessage
MaxClock  == 1      \* ticks of an AudioContext clock
MaxDur    == 1      \* longest decoded chunk, in ticks
MaxEvents == 5      \* budget of one run: a start costs StartCost, any other input 1
StartCost == 2
MaxTools  == 1      \* uses of the Web Search tool
MaxSwitches == 1    \* persona selections
MaxFrames == 1      \* microphone frames captured

Personas == 1..2    \* ids of the personas; personas[0] is 1

Calls == 1..MaxStarts
MsgIds == 1..MaxMsgs

\* A LiveServerMessage, reduced to the fields onmessage reads, plus the
\* inputTranscription field that the connect config asks the server for.
\* audio = 0: no inline audio, otherwise the duration of the decoded buffer.
\* text: the message has an outputTranscription; its fragment is named by
\* the delivery index of the message, so every fragment is distinct.
\* input: the message has an inputTranscription (a delta of the user); such
\* a message carries nothing else.
Messages ==
    { m \in [audio : 0..MaxDur, text : BOOLEAN, input : BOOLEAN,
             interrupted : BOOLEAN, turnComplete : BOOLEAN] :
        IF m.input
        THEN m.audio = 0 /\ ~m.text /\ ~m.interrupted /\ ~m.turnComplete
        ELSE m.audio > 0 \/ m.text \/ m.interrupted \/ m.turnComplete }

\* The server traffic of one run is of one of two classes: playback traffic
\* (audio chunks and interruptions) or transcript traffic (transcript deltas
\* of both speakers and turn boundaries, with or without audio).
PlaybackTraffic == { m \in Messages : ~m.text /\ ~m.turnComplete /\ ~m.input }
TranscriptTraffic == { m \in Messages : ~m.interrupted /\ (m.audio > 0 => m.text \/ m.turnComplete) }
Traffic(class) == IF class = "playback" THEN PlaybackTraffic ELSE TranscriptTraffic

VARIABLES
    traffic,                \* the class of messages the server sends in this run
    isSessionActive,        \* useState isSessionActive
    conversationState,      \* useState conversationState
    transcript,             \* useState transcript (committed value)
    updateQueue,            \* setTranscript updates not yet applied by a render
    renderedActive,         \* isSessionActive as of the last render (closures)
    sessionPromiseRef,      \* refs, 0 = null
    inputAudioContextRef,
    outputAudioContextRef,
    mediaStreamRef,
    nextStartTimeRef,
    sourcesRef,             \* set of handle ids
    isNewTurnRef,
    nStarts,                \* number of startConversation calls so far
    callPc,                 \* per call: "unused" | "awaitMic" | "done"
    session,                \* per call: "none" | "pending" | "open" | "closed" | "failed"
    closeQueued,            \* sessions with a .then(session => session.close()) pending
    liveStreams,            \* microphone streams whose tracks are live
    ctxState,               \* per call: "none" | "running" | "closed"
    currentTime,            \* per call: currentTime of its output context
    wired,                  \* calls whose onopen wired the capture pipeline
    nMsgs,                  \* messages delivered so far
    delivered,              \* log of delivered messages, in delivery order
    inflight,               \* onmessage handlers suspended at await decodeAudioData
    scheduled,              \* log of source.start calls, in scheduling order
    stopped,                \* handles on which source.stop() was called
    endedFired,             \* handles whose onended callback has run
    nInterrupts,            \* interruptions processed so far
    afterInterrupt,         \* an interruption was processed, no chunk scheduled since
    nTools,                 \* uses of the Web Search tool so far
    activePersonaId,        \* useState activePersonaId (as rendered)
    isPersonaModalOpen,     \* useState isPersonaModalOpen
    switchTimer,            \* pending setTimeout of handleSelectPersona: 0 = none,
                            \* else the persona of the startConversation it holds
    nSwitches,              \* persona selections so far
    config,                 \* per call: persona of its connect config, 0 = unused
    nFrames,                \* microphone frames captured so far
    wiredCtx,               \* per call: input context its capture pipeline runs on
    queuedFrames,           \* per call: sends chained on its pending connect promise
    sentQueued              \* frames sent that had been chained on a pending promise

vars == << traffic, isSessionActive, conversationState, transcript, updateQueue,
           renderedActive, sessionPromiseRef, inputAudioContextRef,
           outputAudioContextRef, mediaStreamRef, nextStartTimeRef, sourcesRef,
           isNewTurnRef, nStarts, callPc, session, closeQueued, liveStreams,
           ctxState, currentTime, wired, nMsgs, delivered, inflight, scheduled,
           stopped, endedFired, nInterrupts, afterInterrupt, nTools,
           activePersonaId, isPersonaModalOpen, switchTimer, nSwitches, config,
           nFrames, wiredCtx, queuedFrames, sentQueued >>

reactVars  == << isSessionActive, conversationState, transcript, updateQueue, renderedActive >>
schedVars  == << nextStartTimeRef, sourcesRef, scheduled, stopped, endedFired,
                 nInterrupts, afterInterrupt >>
resVars    == << sessionPromiseRef, inputAudioContextRef, outputAudioContextRef,
                 mediaStreamRef, liveStreams, ctxState, closeQueued >>
callVars   == << nStarts, callPc, session, wired, traffic >>
msgVars    == << nMsgs, delivered, inflight >>
personaVars == << activePersonaId, isPersonaModalOpen, switchTimer, nSwitches >>
captureVars == << nFrames, wiredCtx, queuedFrames, sentQueued >>

\* What a run has spent of its budget.
Spent == StartCost * nStarts + nMsgs + nTools + nSwitches + nFrames

Max(a, b) == IF a >= b THEN a ELSE b

Init ==
    /\ traffic \in {"playback", "transcript"}
    /\ isSessionActive = FALSE
    /\ conversationState = "idle"
    /\ transcript = << >>
    /\ updateQueue = << >>
    /\ renderedActive = FALSE
    /\ sessionPromiseRef = 0
    /\ inputAudioContextRef = 0
    /\ outputAudioContextRef = 0
    /\ mediaStreamRef = 0
    /\ nextStartTimeRef = 0
    /\ sourcesRef = {}
    /\ isNewTurnRef = TRUE
    /\ nStarts = 0
    /\ callPc = [k \in Calls |-> "unused"]
    /\ session = [k \in Calls |-> "none"]
    /\ closeQueued = {}
    /\ liveStreams = {}
    /\ ctxState = [k \in Calls |-> "none"]
    /\ currentTime = [k \in Calls |-> 0]
    /\ wired = {}
    /\ nMsgs = 0
    /\ delivered = << >>
    /\ inflight = {}
    /\ scheduled = << >>
    /\ stopped = {}
    /\ endedFired = {}
    /\ nInterrupts = 0
    /\ afterInterrupt = FALSE
    /\ nTools = 0
    /\ activePersonaId = 1
    /\ isPersonaModalOpen = FALSE
    /\ switchTimer = 0
    /\ nSwitches = 0
    /\ config = [k \in Calls |-> 0]
    /\ nFrames = 0
    /\ wiredCtx = [k \in Calls |-> 0]
    /\ queuedFrames = [k \in Calls |-> 0]
    /\ sentQueued = 0

\* ---- pure helpers -------------------------------------------------------

\* line 494: nextStartTimeRef.current = Math.max(nextStartTimeRef.current, outCtx.currentTime)
ArrivalStartTime(nst, clock) == Max(nst, clock)

\* line 500: nextStartTimeRef.current += audioBuffer.duration
AdvanceStartTime(nst, dur) == nst + dur

\* line 528: nextStartTimeRef.current = 0
InterruptedStartTime == 0

\* The sources stopped but the set not cleared.
ClearedSourcesKept(srcs) == srcs

\* lines 526-527 and 555-556: sourcesRef.current.forEach(stop); sourcesRef.current.clear()
ClearedSources(srcs) == {}

\* AudioBufferSourceNode.start(when): playback begins at when, or at once if
\* when is already behind the context clock.
PlaybackBegin(when, clock) == Max(when, clock)

ModelEntry(newText) == [speaker |-> "model", text |-> newText]
SystemEntry == [speaker |-> "system", text |-> << 0 >>]

\* The updater without the speaker check of line 517: it appends to the last
\* entry whatever its speaker.
TranscriptUpdaterAnySpeaker(prev, isNew, newText) ==
    IF isNew
    THEN [t |-> Append(prev, [speaker |-> "model", text |-> newText]), n |-> FALSE]
    ELSE IF Len(prev) > 0
         THEN [t |-> [prev EXCEPT ![Len(prev)].text = @ \o newText], n |-> isNew]
         ELSE [t |-> Append(prev, [speaker |-> "model", text |-> newText]), n |-> isNew]

\* The updater without the isNewTurnRef check of line 512: it appends to the
\* last entry of the model also when a new turn has begun.
TranscriptUpdaterIgnoresTurn(prev, isNew, newText) ==
    IF Len(prev) > 0 /\ prev[Len(prev)].speaker = "model"
    THEN [t |-> [prev EXCEPT ![Len(prev)].text = @ \o newText], n |-> FALSE]
    ELSE [t |-> Append(prev, [speaker |-> "model", text |-> newText]), n |-> FALSE]

\* lines 511-522: the updater passed to setTranscript; it reads and writes
\* isNewTurnRef when it runs.  Result: the new transcript t and the flag n.
TranscriptUpdater(prev, isNew, newText) ==
    IF isNew
    THEN [t |-> Append(prev, ModelEntry(newText)), n |-> FALSE]
    ELSE IF Len(prev) > 0 /\ prev[Len(prev)].speaker = "model"
         THEN [t |-> [prev EXCEPT ![Len(prev)].text = @ \o newText], n |-> isNew]
         ELSE [t |-> Append(prev, ModelEntry(newText)), n |-> isNew]

\* One queued setTranscript update applied to (transcript, isNewTurnRef).
ApplyUpdate(u, st) ==
    CASE u.kind = "delta"  -> TranscriptUpdater(st.t, st.n, << u.text >>)
      [] u.kind = "clear"  -> [t |-> << >>, n |-> st.n]
      [] u.kind = "system" -> [t |-> Append(st.t, SystemEntry), n |-> st.n]

\* React applies the queued updates in the order of the setTranscript calls.
RECURSIVE Flush(_, _)
Flush(q, st) == IF q = << >> THEN st ELSE Flush(Tail(q), ApplyUpdate(Head(q), st))

\* setTranscript(update): applied at once (eager) only when nothing is queued,
\* otherwise queued for the next render.
SetTranscript(u, eager, st) ==
    IF eager /\ st.q = << >>
    THEN LET r == ApplyUpdate(u, [t |-> st.t, n |-> st.n])
         IN  [st EXCEPT !.t = r.t, !.n = r.n]
    ELSE [st EXCEPT !.q = Append(@, u)]

\* lines 508-534: the part of onmessage after the audio branch, on the state
\* st = [t, q, n, nst, srcs, stp, cs, ints, aft].
\* (outputTranscription, then interrupted, then turnComplete)
RestOfMessage(m, id, eager, st) ==
    LET s1 == IF m.text
              THEN SetTranscript([kind |-> "delta", text |-> id], eager, st)
              ELSE st
        s2 == IF m.interrupted
              THEN [s1 EXCEPT !.stp = @ \cup s1.srcs,
                              !.srcs = ClearedSources(s1.srcs),
                              !.nst = InterruptedStartTime,
                              !.cs = "listening",
                              !.ints = @ + 1,
                              !.aft = TRUE]
              ELSE s1
        s3 == IF m.turnComplete THEN [s2 EXCEPT !.n = TRUE] ELSE s2
    IN  s3

HandlerState ==
    [t |-> transcript, q |-> updateQueue, n |-> isNewTurnRef,
     nst |-> nextStartTimeRef, srcs |-> sourcesRef, stp |-> stopped,
     cs |-> conversationState, ints |-> nInterrupts, aft |-> afterInterrupt]

\* Writes a handler state back to the variables.
Commit(st) ==
    /\ transcript' = st.t
    /\ updateQueue' = st.q
    /\ isNewTurnRef' = st.n
    /\ nextStartTimeRef' = st.nst
    /\ sourcesRef' = st.srcs
    /\ stopped' = st.stp
    /\ conversationState' = st.cs
    /\ nInterrupts' = st.ints
    /\ afterInterrupt' = st.aft

\* ---- stopConversation (lines 548-567) -----------------------------------
\* sessionPromiseRef.current?.then(session => session.close()): on a promise
\* that has resolved the callback runs before any other task, so the session
\* is closed here; on a pending promise it runs when connect resolves.
StopEffects ==
    /\ session' = [k \in Calls |->
                     IF k = sessionPromiseRef /\ session[k] = "open"
                     THEN "closed" ELSE session[k]]
    /\ closeQueued' = IF sessionPromiseRef # 0 /\ session[sessionPromiseRef] = "pending"
                      THEN closeQueued \cup {sessionPromiseRef} ELSE closeQueued
    /\ sessionPromiseRef' = 0
    /\ liveStreams' = liveStreams \ {mediaStreamRef}
    /\ mediaStreamRef' = 0
    /\ stopped' = stopped \cup sourcesRef
    /\ sourcesRef' = ClearedSources(sourcesRef)
    /\ ctxState' = [k \in Calls |->
                      IF k \in {inputAudioContextRef, outputAudioContextRef}
                         /\ ctxState[k] = "running"
                      THEN "closed" ELSE ctxState[k]]
    /\ isSessionActive' = FALSE
    /\ conversationState' = "idle"
    /\ UNCHANGED << inputAudioContextRef, outputAudioContextRef, nextStartTimeRef,
                    currentTime, wired, traffic, nMsgs, delivered, inflight,
                    scheduled, endedFired, nInterrupts, afterInterrupt >>

\* line 669: the Stop button, shown while the rendered isSessionActive is true
StopConversation ==
    /\ renderedActive
    /\ StopEffects
    /\ UNCHANGED << renderedActive, nStarts, callPc, transcript, updateQueue,
                    isNewTurnRef, nTools, personaVars, config, captureVars >>

\* ---- startConversation (lines 448-471, 542-545) -------------------------
\* line 669: the Start button, shown while the rendered isSessionActive is false.
\* Runs up to the await of getUserMedia.  The state updates of a click are
\* rendered before the next event: the queued transcript updates run (they
\* read isNewTurnRef as set by line 453) and the button becomes Stop.
\* persona: the activePersona of the render in which this startConversation
\* was created (useCallback, line 546); lines 469-470 read it.
StartWith(persona) ==
    /\ nStarts < MaxStarts
    /\ Spent + StartCost <= MaxEvents
    /\ nStarts' = nStarts + 1
    /\ config' = [config EXCEPT ![nStarts + 1] = persona]
    /\ callPc' = [callPc EXCEPT ![nStarts + 1] = "awaitMic"]
    /\ isSessionActive' = TRUE
    /\ renderedActive' = TRUE
    /\ conversationState' = "listening"
    /\ LET r == Flush(Append(updateQueue, [kind |-> "clear", text |-> 0]),
                      [t |-> transcript, n |-> TRUE])
       IN  /\ transcript' = r.t
           /\ isNewTurnRef' = r.n
           /\ updateQueue' = << >>
    /\ nextStartTimeRef' = 0
    /\ UNCHANGED << resVars, session, wired, traffic, msgVars, currentTime,
                    sourcesRef, scheduled, stopped, endedFired, nInterrupts,
                    afterInterrupt, nTools, activePersonaId, isPersonaModalOpen,
                    nSwitches, captureVars >>

StartConversation ==
    /\ ~renderedActive
    /\ StartWith(activePersonaId)
    /\ UNCHANGED switchTimer

\* lines 456-471: getUserMedia resolved; the stream and the two contexts are
\* stored in the refs and ai.live.connect is called (not awaited).
MicGranted(k) ==
    /\ callPc[k] = "awaitMic"
    /\ callPc' = [callPc EXCEPT ![k] = "done"]
    /\ mediaStreamRef' = k
    /\ liveStreams' = liveStreams \cup {k}
    /\ inputAudioContextRef' = k
    /\ outputAudioContextRef' = k
    /\ ctxState' = [ctxState EXCEPT ![k] = "running"]
    /\ sessionPromiseRef' = k
    /\ session' = [session EXCEPT ![k] = "pending"]
    /\ UNCHANGED << reactVars, schedVars, isNewTurnRef, nStarts, closeQueued, wired,
                    traffic, msgVars, currentTime, nTools, personaVars, config,
                    captureVars >>

\* lines 456, 542-545: getUserMedia rejected; the catch calls stopConversation.
MicDenied(k) ==
    /\ callPc[k] = "awaitMic"
    /\ callPc' = [callPc EXCEPT ![k] = "done"]
    /\ StopEffects
    /\ UNCHANGED << renderedActive, nStarts, transcript, updateQueue, isNewTurnRef,
                    nTools, personaVars, config, captureVars >>

\* lines 473-486: the transport opened: onopen wires the capture pipeline of
\* this call's stream, the connect promise resolves and a queued close runs.
ConnectOpen(k) ==
    /\ session[k] = "pending"
    /\ session' = [session EXCEPT ![k] = IF k \in closeQueued THEN "closed" ELSE "open"]
    /\ closeQueued' = closeQueued \ {k}
    /\ wired' = wired \cup {k}
    /\ wiredCtx' = [wiredCtx EXCEPT ![k] = inputAudioContextRef]
    /\ sentQueued' = sentQueued + queuedFrames[k]
    /\ queuedFrames' = [queuedFrames EXCEPT ![k] = 0]
    /\ UNCHANGED << reactVars, schedVars, isNewTurnRef, sessionPromiseRef,
                    inputAudioContextRef, outputAudioContextRef, mediaStreamRef,
                    liveStreams, ctxState, nStarts, callPc, traffic, msgVars,
                    currentTime, nTools, personaVars, config, nFrames >>

\* lines 463, 538: the connect promise rejects; nothing awaits it.
ConnectFail(k) ==
    /\ session[k] = "pending"
    /\ session' = [session EXCEPT ![k] = "failed"]
    /\ closeQueued' = closeQueued \ {k}
    /\ queuedFrames' = [queuedFrames EXCEPT ![k] = 0]
    /\ UNCHANGED << reactVars, schedVars, isNewTurnRef, sessionPromiseRef,
                    inputAudioContextRef, outputAudioContextRef, mediaStreamRef,
                    liveStreams, ctxState, nStarts, callPc, wired, traffic, msgVars,
                    currentTime, nTools, personaVars, config, nFrames, wiredCtx,
                    sentQueued >>

\* lines 537-538: the remote side closed the channel or reported an error;
\* onclose and onerror only log.
OnClose(k) ==
    /\ session[k] = "open"
    /\ session' = [session EXCEPT ![k] = "closed"]
    /\ UNCHANGED << reactVars, schedVars, isNewTurnRef, resVars, nStarts, callPc,
                    wired, traffic, msgVars, currentTime, nTools, personaVars,
                    config, captureVars >>

\* ---- onmessage (lines 487-536) ------------------------------------------
\* What the delivery log keeps of a message: whether it had inline audio, and
\* its transcript-related fields.
Entry(m) == [audio |-> m.audio > 0, text |-> m.text, input |-> m.input,
             interrupted |-> m.interrupted, turnComplete |-> m.turnComplete]

EagerChoices(m) == IF m.text /\ updateQueue = << >> THEN BOOLEAN ELSE {FALSE}

\* A message with inline audio: lines 488-495, up to the await.
OnMessageAudio(k, m) ==
    /\ session[k] = "open"
    /\ nMsgs < MaxMsgs
    /\ Spent < MaxEvents
    /\ m \in Traffic(traffic)
    /\ m.audio > 0
    /\ nMsgs' = nMsgs + 1
    /\ delivered' = Append(delivered, Entry(m))
    /\ conversationState' = "speaking"
    /\ LET outCtx == outputAudioContextRef IN
       IF outCtx = 0 \/ ctxState[outCtx] = "closed"
       THEN UNCHANGED << nextStartTimeRef, inflight >>
       ELSE /\ nextStartTimeRef' = ArrivalStartTime(nextStartTimeRef, currentTime[outCtx])
            /\ inflight' = inflight \cup {[id |-> nMsgs + 1, msg |-> m, ctx |-> outCtx,
                                         arrived |-> currentTime[outCtx]]}
    /\ UNCHANGED << isSessionActive, transcript, updateQueue, renderedActive,
                    sourcesRef, scheduled, stopped, endedFired, nInterrupts,
                    afterInterrupt, isNewTurnRef, resVars, callVars, currentTime,
                    nTools, personaVars, config, captureVars >>

\* A message without inline audio: lines 508-534 run at once.
OnMessagePlain(k, m) ==
    /\ session[k] = "open"
    /\ nMsgs < MaxMsgs
    /\ Spent < MaxEvents
    /\ m \in Traffic(traffic)
    /\ m.audio = 0
    /\ nMsgs' = nMsgs + 1
    /\ delivered' = Append(delivered, Entry(m))
    /\ \E eager \in EagerChoices(m) : Commit(RestOfMessage(m, nMsgs + 1, eager, HandlerState))
    /\ UNCHANGED << isSessionActive, renderedActive, scheduled, endedFired, inflight,
                    resVars, callVars, currentTime, nTools, personaVars, config,
                    captureVars >>

\* The handler of message id, suspended at line 495.
Suspended(id) == CHOOSE h \in inflight : h.id = id

\* decodeAudioData (./utils/audioUtils) returns a promise.  The handler that
\* awaits it resumes when the promise settles, at any time after the call;
\* handlers of later messages may run in between.
DecodeSettles(id) == \E h \in inflight : h.id = id

\* decodeAudioData resolved: lines 496-505 (source.start, bookkeeping), then
\* lines 508-534 of the same handler.

DecodeDoneOf(h) ==
    /\ h \in inflight
    /\ inflight' = inflight \ {h}
    /\ scheduled' = Append(scheduled,
          [id |-> h.id, when |-> nextStartTimeRef, dur |-> h.msg.audio,
           at |-> currentTime[h.ctx], ctx |-> h.ctx])
    /\ LET st0 == [HandlerState EXCEPT
                      !.nst = AdvanceStartTime(nextStartTimeRef, h.msg.audio),
                      !.srcs = @ \cup {h.id},
                      !.aft = FALSE]
       IN  \E eager \in EagerChoices(h.msg) : Commit(RestOfMessage(h.msg, h.id, eager, st0))
    /\ UNCHANGED << isSessionActive, renderedActive, endedFired, nMsgs, delivered,
                    resVars, callVars, currentTime, nTools, personaVars, config,
                    captureVars >>

DecodeDone(id) ==
    /\ DecodeSettles(id)
    /\ DecodeDoneOf(Suspended(id))

\* line 495: decodeAudioData rejected (a malformed chunk): the await throws,
\* nothing catches it and the rest of the handler never runs.
DecodeFail(id) ==
    /\ DecodeSettles(id)
    /\ inflight' = inflight \ {Suspended(id)}
    /\ UNCHANGED << reactVars, schedVars, isNewTurnRef, resVars, callVars, nMsgs,
                    delivered, currentTime, nTools, personaVars, config, captureVars >>

Handle(id) == CHOOSE s \in {scheduled[i] : i \in 1..Len(scheduled)} : s.id = id
ScheduledIds == {scheduled[i].id : i \in 1..Len(scheduled)}

HasEnded(s) ==
    \/ s.id \in stopped
    \/ /\ ctxState[s.ctx] = "running"
       /\ currentTime[s.ctx] >= PlaybackBegin(s.when, s.at) + s.dur

\* onended without the size check of line 504: it sets 'listening' always.
OnEndedAlwaysListening(id) ==
    /\ id \in {scheduled[i].id : i \in 1..Len(scheduled)} \ endedFired
    /\ \/ id \in stopped
       \/ \E i \in 1..Len(scheduled) :
             /\ scheduled[i].id = id
             /\ ctxState[scheduled[i].ctx] = "running"
             /\ currentTime[scheduled[i].ctx] >=
                    PlaybackBegin(scheduled[i].when, scheduled[i].at) + scheduled[i].dur
    /\ endedFired' = endedFired \cup {id}
    /\ sourcesRef' = sourcesRef \ {id}
    /\ conversationState' = "listening"
    /\ UNCHANGED << isSessionActive, transcript, updateQueue, renderedActive,
                    nextStartTimeRef, scheduled, stopped, nInterrupts, afterInterrupt,
                    isNewTurnRef, resVars, callVars, msgVars, currentTime, nTools,
                    personaVars, config, captureVars >>

\* lines 502-505: source.onended, after natural completion or after stop()
OnEnded(id) ==
    /\ id \in ScheduledIds \ endedFired
    /\ HasEnded(Handle(id))
    /\ endedFired' = endedFired \cup {id}
    /\ sourcesRef' = sourcesRef \ {id}
    /\ conversationState' = IF sourcesRef \ {id} = {} THEN "listening"
                            ELSE conversationState
    /\ UNCHANGED << isSessionActive, transcript, updateQueue, renderedActive,
                    nextStartTimeRef, scheduled, stopped, nInterrupts, afterInterrupt,
                    isNewTurnRef, resVars, callVars, msgVars, currentTime, nTools,
                    personaVars, config, captureVars >>

\* ---- React render -------------------------------------------------------
\* A render applies the queued setTranscript updates.
RenderFlush ==
    LET r == Flush(updateQueue, [t |-> transcript, n |-> isNewTurnRef]) IN
    /\ transcript' = r.t
    /\ isNewTurnRef' = r.n
    /\ updateQueue' = << >>

\* A render in which isSessionActive is unchanged.
Render ==
    /\ updateQueue # << >>
    /\ renderedActive = isSessionActive
    /\ RenderFlush
    /\ UNCHANGED << isSessionActive, conversationState, renderedActive, schedVars,
                    resVars, callVars, msgVars, currentTime, nTools, personaVars,
                    config, captureVars >>

\* lines 569-573: the render after isSessionActive became false: the cleanup of
\* the previous effect, which saw isSessionActive true, calls stopConversation.
EffectCleanup ==
    /\ renderedActive /\ ~isSessionActive
    /\ renderedActive' = FALSE
    /\ RenderFlush
    /\ StopEffects
    /\ UNCHANGED << nStarts, callPc, nTools, personaVars, config, captureVars >>

\* ---- tools and personas --------------------------------------------------
\* lines 584-591: handleToolSelect('search') during a session appends a
\* system notice; the click is rendered at once.  (The 'image' tool changes
\* nothing.)
ToolSelect ==
    /\ renderedActive
    /\ nTools < MaxTools
    /\ Spent < MaxEvents
    /\ nTools' = nTools + 1
    /\ LET r == Flush(Append(updateQueue, [kind |-> "system", text |-> 0]),
                      [t |-> transcript, n |-> isNewTurnRef])
       IN  /\ transcript' = r.t
           /\ isNewTurnRef' = r.n
           /\ updateQueue' = << >>
    /\ UNCHANGED << isSessionActive, conversationState, renderedActive, schedVars,
                    resVars, callVars, msgVars, currentTime, personaVars, config,
                    captureVars >>

\* line 665: the Persona button, enabled while the rendered isSessionActive
\* is false.
OpenPersonaModal ==
    /\ ~renderedActive
    /\ ~isPersonaModalOpen
    /\ isPersonaModalOpen' = TRUE
    /\ UNCHANGED << reactVars, schedVars, isNewTurnRef, resVars, callVars, msgVars,
                    currentTime, nTools, activePersonaId, switchTimer, nSwitches,
                    config, captureVars >>

\* line 628: onClose of the modal.
ClosePersonaModal ==
    /\ isPersonaModalOpen
    /\ isPersonaModalOpen' = FALSE
    /\ UNCHANGED << reactVars, schedVars, isNewTurnRef, resVars, callVars, msgVars,
                    currentTime, nTools, activePersonaId, switchTimer, nSwitches,
                    config, captureVars >>

\* lines 575-582: handleSelectPersona(id), from the open modal.  With a
\* session active it calls stopConversation and sets a timer that calls the
\* startConversation of the render in which this handler was created, the one
\* of the persona that is active before the selection.
SelectPersona(id) ==
    /\ isPersonaModalOpen
    /\ nSwitches < MaxSwitches
    /\ Spent < MaxEvents
    /\ nSwitches' = nSwitches + 1
    /\ activePersonaId' = id
    /\ isPersonaModalOpen' = FALSE
    /\ IF renderedActive
       THEN /\ StopEffects
            /\ switchTimer' = activePersonaId
       ELSE UNCHANGED << switchTimer, session, closeQueued, sessionPromiseRef,
                         liveStreams, mediaStreamRef, stopped, sourcesRef, ctxState,
                         isSessionActive, conversationState, inputAudioContextRef,
                         outputAudioContextRef, nextStartTimeRef, currentTime, wired,
                         traffic, nMsgs, delivered, inflight, scheduled, endedFired,
                         nInterrupts, afterInterrupt >>
    /\ UNCHANGED << renderedActive, nStarts, callPc, transcript, updateQueue,
                    isNewTurnRef, nTools, config, captureVars >>

\* line 580: the timer of handleSelectPersona fires.
TimerStart ==
    /\ switchTimer # 0
    /\ StartWith(switchTimer)
    /\ switchTimer' = 0

\* ---- capture (lines 476-483) --------------------------------------------
\* onaudioprocess of the pipeline wired by call k: it runs while the stream
\* of call k is live and the context it was built on runs.  The frame is
\* sent through whatever promise sessionPromiseRef holds at that time: on a
\* pending promise the send is chained and runs when the promise resolves.
CaptureFrame(k) ==
    /\ k \in wired
    /\ k \in liveStreams
    /\ wiredCtx[k] # 0
    /\ ctxState[wiredCtx[k]] = "running"
    /\ nFrames < MaxFrames
    /\ Spent < MaxEvents
    /\ nFrames' = nFrames + 1
    /\ queuedFrames' = IF sessionPromiseRef # 0 /\ session[sessionPromiseRef] = "pending"
                       THEN [queuedFrames EXCEPT ![sessionPromiseRef] = @ + 1]
                       ELSE queuedFrames
    /\ UNCHANGED << reactVars, schedVars, isNewTurnRef, resVars, callVars, msgVars,
                    currentTime, nTools, personaVars, config, wiredCtx, sentQueued >>

\* ---- the audio clock ----------------------------------------------------
Running == {k \in Calls : ctxState[k] = "running"}

Tick ==
    /\ Running # {}
    /\ \A k \in Running : currentTime[k] < MaxClock
    /\ currentTime' = [k \in Calls |-> IF k \in Running THEN currentTime[k] + 1
                                       ELSE currentTime[k]]
    /\ UNCHANGED << reactVars, schedVars, isNewTurnRef, resVars, callVars, msgVars,
                    nTools, personaVars, config, captureVars >>

Next ==
    \/ StartConversation
    \/ StopConversation
    \/ \E k \in Calls : MicGranted(k)
    \/ \E k \in Calls : MicDenied(k)
    \/ \E k \in Calls : ConnectOpen(k)
    \/ \E k \in Calls : ConnectFail(k)
    \/ \E k \in Calls : OnClose(k)
    \/ \E k \in Calls, m \in Messages : OnMessageAudio(k, m)
    \/ \E k \in Calls, m \in Messages : OnMessagePlain(k, m)
    \/ \E id \in MsgIds : DecodeDone(id)
    \/ \E id \in MsgIds : DecodeFail(id)
    \/ \E id \in MsgIds : OnEnded(id)
    \/ Render
    \/ EffectCleanup
    \/ ToolSelect
    \/ OpenPersonaModal
    \/ ClosePersonaModal
    \/ \E id \in Personas : SelectPersona(id)
    \/ TimerStart
    \/ \E k \in Calls : CaptureFrame(k)
    \/ Tick

Spec == Init /\ [][Next]_vars

\* ---- properties ---------------------------------------------------------

\* A run of one session in which no interruption has been processed.
Uninterrupted == nStarts <= 1 /\ nInterrupts = 0

Scheduled == {scheduled[i] : i \in 1..Len(scheduled)}

\* C1 (no-overlap): of two scheduled chunks, the one that arrived later is
\* given a start time at or after the end (start + duration) of the one that
\* arrived earlier.  Stated for one session without interruption.
C1_NoOverlap ==
    Uninterrupted =>
        \A h1, h2 \in Scheduled :
            h1.id < h2.id => h2.when >= h1.when + h1.dur

\* C2: the start time passed to source.start is never behind the clock of
\* the output context at the moment of the call.
C2_StartNotBehindClock ==
    Uninterrupted =>
        \A h \in Scheduled : ctxState[h.ctx] = "running" => h.when >= h.at

\* C3: chunks are scheduled in arrival order and their start times are in
\* arrival order.
C3_ArrivalOrder ==
    Uninterrupted =>
        /\ \A i, j \in 1..Len(scheduled) :
              i < j => scheduled[i].id < scheduled[j].id
        /\ \A h1, h2 \in Scheduled : h1.id < h2.id => h1.when <= h2.when

AudioIds == ScheduledIds \cup {h.id : h \in inflight}

\* The audio chunk that arrived last before chunk id (0: there is none), and
\* the end of its playback as scheduled.
Pred(id) ==
    LET before == {i \in AudioIds : i < id}
    IN  IF before = {} THEN 0
        ELSE CHOOSE i \in before : \A j \in before : j <= i
PrevEnd(id) == IF Pred(id) = 0 THEN 0 ELSE Handle(Pred(id)).when + Handle(Pred(id)).dur

\* C4 (scheduling arithmetic): without interruption, a chunk whose predecessor
\* has been scheduled (or that is the first) is started at
\* max(start + duration of the predecessor, clock at its own arrival), and
\* nextStartTime afterwards is its start plus its duration.
C4_SchedulingArithmetic ==
    [][\A id \in MsgIds :
          ( /\ DecodeDone(id)
            /\ Uninterrupted /\ nInterrupts' = 0
            /\ Pred(id) = 0 \/ Pred(id) \in ScheduledIds )
          => /\ nextStartTimeRef = Max(PrevEnd(id), Suspended(id).arrived)
             /\ nextStartTimeRef' = nextStartTimeRef + Suspended(id).msg.audio]_vars

\* C5 (interruption clears state): the first chunk scheduled after an
\* interruption finds activeHandles empty and is given the clock of the
\* output context (at its arrival or at its scheduling) as start time.
C5_InterruptionClearsState ==
    [][\A id \in MsgIds :
          ( /\ DecodeDone(id)
            /\ afterInterrupt /\ nStarts <= 1
            /\ ctxState[Suspended(id).ctx] = "running" )
          => /\ sourcesRef = {}
             /\ nextStartTimeRef \in {currentTime[Suspended(id).ctx],
                                      Suspended(id).arrived}]_vars

\* A step in which the handler of a message that carries `interrupted` ends,
\* after lines 525-530 or at the early return of line 492 (a handler that a
\* rejected decode aborts is left out).
InterruptedHandlerEnds ==
    \/ \E k \in Calls, m \in Messages : m.interrupted /\ OnMessagePlain(k, m)
    \/ \E k \in Calls, m \in Messages :
          m.interrupted /\ OnMessageAudio(k, m) /\ inflight' = inflight
    \/ \E id \in MsgIds :
          /\ \E h \in inflight : h.id = id /\ h.msg.interrupted
          /\ DecodeDone(id)

\* C6: the handling of an Interrupted event force-stops every handle that is
\* in activeHandles, leaves activeHandles empty and the state Listening.
C6_InterruptedStopsAll ==
    [][InterruptedHandlerEnds =>
          /\ sourcesRef \subseteq stopped'
          /\ sourcesRef' = {}
          /\ conversationState' = "listening"]_vars

\* C10 (idempotent stop): after a stop() by the Stop button and after the
\* second stop() that the effect cleanup then makes, no microphone stream is
\* live, activeHandles is empty and the state is Idle.
C10_IdempotentStop ==
    [][(StopConversation \/ EffectCleanup) =>
          /\ liveStreams' = {} /\ mediaStreamRef' = 0
          /\ sourcesRef' = {}
          /\ conversationState' = "idle"]_vars

\* ---- transcript ---------------------------------------------------------
Increasing(txt) == \A p, q \in 1..Len(txt) : p < q => txt[p] < txt[q]

NoTurnComplete == \A i \in 1..Len(delivered) : ~delivered[i].turnComplete

\* C7 (merge law): while no TurnComplete has been delivered and no entry of
\* another speaker was made, the deltas of the model are in one entry, in the
\* order of their delivery (a fragment is named by the delivery index of its
\* message).
C7_MergeLaw ==
    (nStarts <= 1 /\ NoTurnComplete /\ nTools = 0) =>
        /\ Len(transcript) <= 1
        /\ \A e \in 1..Len(transcript) : Increasing(transcript[e].text)

\* Message j carries the first delta delivered after a TurnComplete.
FirstAfterTurnComplete(j) ==
    /\ j \in 1..Len(delivered)
    /\ delivered[j].text
    /\ \E i \in 1..(j - 1) :
          /\ delivered[i].turnComplete
          /\ \A l \in (i + 1)..(j - 1) : ~delivered[l].text

NoAudioDelivered == \A i \in 1..Len(delivered) : ~delivered[i].audio

\* C8 (turn boundary law): the first delta delivered after a TurnComplete
\* begins an entry; it is never appended to an existing entry.  (Stated for
\* messages without inline audio, whose handlers run without suspending.)
C8_TurnBoundary ==
    (nStarts <= 1 /\ NoAudioDelivered) =>
        \A e \in 1..Len(transcript) :
            \A p \in 2..Len(transcript[e].text) :
                ~FirstAfterTurnComplete(transcript[e].text[p])

\* C9: a transcript delta of the user that has been delivered is recorded in
\* an entry of speaker user (once every handler and queued update has run).
C9_UserDeltaRecorded ==
    ( /\ nStarts <= 1 /\ inflight = {} /\ updateQueue = << >>
      /\ \E i \in 1..Len(delivered) : delivered[i].input )
    => \E e \in 1..Len(transcript) : transcript[e].speaker = "user"

\* ---- lifecycle ----------------------------------------------------------
\* C11: a stop() made while start() is in progress cancels that start: with
\* the session inactive again no microphone stream is held, no transport
\* session is pending or open and no capture pipeline gets wired, whenever
\* the microphone and connect results arrive.  (Stated for a single start.)
C11_StopCancelsStart ==
    (nStarts = 1 /\ ~isSessionActive) =>
        /\ liveStreams = {}
        /\ mediaStreamRef = 0
        /\ \A k \in Calls : session[k] \notin {"pending", "open"} \/ k \in closeQueued

\* C12: when the transport connect fails, the stop() cleanup runs: the
\* session is inactive, the microphone released and the contexts closed.
C12_ConnectFailureCleansUp ==
    [][\A k \in Calls :
          (ConnectFail(k) /\ nStarts = 1) =>
              /\ ~isSessionActive'
              /\ liveStreams' = {}
              /\ ctxState'[k] = "closed"]_vars

\* C13: when the microphone is denied, the session was at no point since the
\* call of start() in state Listening or marked active; in particular not in
\* the state in which the denial arrives.
C13_DeniedNeverListening ==
    [][\A k \in Calls :
          (MicDenied(k) /\ nStarts = 1) =>
              ~isSessionActive /\ conversationState # "listening"]_vars

\* C14: when the remote side closes the channel of the active session, a full
\* stop() is performed: microphone released, playback handles stopped,
\* session inactive.
C14_RemoteCloseStops ==
    [][\A k \in Calls :
          (OnClose(k) /\ nStarts = 1 /\ isSessionActive) =>
              /\ ~isSessionActive'
              /\ liveStreams' = {}
              /\ sourcesRef' = {}]_vars

\* The fragments of the transcript and of the queued updates.
Fragments(t, q) ==
    UNION {{t[e].text[p] : p \in 1..Len(t[e].text)} : e \in 1..Len(t)}
        \cup {q[i].text : i \in {j \in 1..Len(q) : q[j].kind = "delta"}}

\* C15: a malformed chunk is skipped alone: no handle is added for it, the
\* other parts of its message (transcript delta, interrupted, turnComplete)
\* are processed, and the state does not stay Speaking on account of it.
C15_MalformedChunkSkipped ==
    [][\A id \in MsgIds :
          (DecodeFail(id) /\ nStarts = 1) =>
              LET m == Suspended(id).msg IN
              /\ scheduled' = scheduled /\ sourcesRef' \subseteq sourcesRef
              /\ m.text => id \in Fragments(transcript', updateQueue')
              /\ m.interrupted => sourcesRef' = {} /\ conversationState' = "listening"
              /\ m.turnComplete => isNewTurnRef'
              /\ (sourcesRef = {} /\ inflight' = {}) => conversationState' # "speaking"]_vars

\* C16: transport events are processed one at a time, in delivery order:
\* while the handler of message k is in progress, no effect of a later message
\* (a scheduled chunk, a transcript update) has been applied.
C16_EventsSerialised ==
    nStarts <= 1 =>
        \A h \in inflight :
            /\ \A id \in ScheduledIds : id < h.id
            /\ \A f \in Fragments(transcript, updateQueue) : f < h.id

\* C20: a chunk whose message was delivered before an Interrupted event is
\* never started after that event has been processed, also when it was still
\* being decoded at that time.
C20_QueuedAudioDiscarded ==
    [][\A id \in MsgIds :
          (DecodeDone(id) /\ nStarts <= 1) =>
              ~ \E j \in (id + 1)..Len(delivered) :
                    /\ delivered[j].interrupted
                    /\ ~ \E h \in inflight : h.id = j]_vars

\* C17: the session started by a persona switch is connected with the
\* configuration of the persona selected by the switch.
C17_SwitchUsesNewPersona ==
    [][TimerStart => config'[nStarts + 1] = activePersonaId]_vars

\* C18: a frame captured while the transport it is sent to has not connected
\* is dropped: no frame is chained on a pending connect and sent later.
C18_NoFrameSentLater == sentQueued = 0

\* C19: a system notice is an entry of its own: nothing is ever appended to
\* an entry of speaker system, and a notice is never appended to an entry of
\* the model (the text of a notice is the token 0, fragments of the model are
\* delivery indices).
C19_SystemNoticeSeparate ==
    \A e \in 1..Len(transcript) :
        /\ transcript[e].speaker = "system" => transcript[e].text = << 0 >>
        /\ transcript[e].speaker = "model" =>
              \A p \in 1..Len(transcript[e].text) : transcript[e].text[p] # 0

\* C19, the case: a delta of the model applied right after a notice began an
\* entry of its own.
C19_Witness ==
    \E e \in 2..Len(transcript) :
        /\ transcript[e - 1].speaker = "system"
        /\ transcript[e].speaker = "model"

\* ---- third group ----------------------------------------------------------
\* C21: on an Interrupted event nextStartTime is reset to the current time of
\* the playback clock, not to zero.
C21_ResetToClock ==
    [][\A k \in Calls, m \in Messages :
          (OnMessagePlain(k, m) /\ m.interrupted /\ nStarts = 1
              /\ outputAudioContextRef # 0) =>
              nextStartTimeRef' = currentTime[outputAudioContextRef]]_vars

\* C24: immediately after stop() the active set is empty, nextStartTime is
\* back at its initial value and isNewTurn is true.
C24_StopResetsState ==
    [][(StopConversation /\ nStarts = 1) =>
          /\ sourcesRef' = {}
          /\ nextStartTimeRef' = 0
          /\ isNewTurnRef']_vars

\* C26: during an active session the state is Speaking whenever the active
\* set is not empty.
C26_SpeakingWhileActiveHandles ==
    (nStarts = 1 /\ isSessionActive /\ sourcesRef # {}) =>
        conversationState = "speaking"

\* C27: from stop() until the next start() the state stays Idle and the
\* active set stays empty, whatever late events arrive.
C27_IdleAfterStop ==
    (nStarts = 1 /\ ~isSessionActive) =>
        conversationState = "idle" /\ sourcesRef = {}

\* C28: at any time at most one microphone stream is live and at most one
\* transport session is pending or open.
C28_AtMostOneSession ==
    /\ Cardinality(liveStreams) <= 1
    /\ Cardinality({k \in Calls : session[k] \in {"pending", "open"}
                                  /\ k \notin closeQueued}) <= 1

\* C29: once a message that carries a transcript delta and turnComplete (and
\* no audio) is fully processed, its update applied, isNewTurn is true.
C29_DeltaWithTurnComplete ==
    ( /\ nStarts = 1 /\ nTools = 0
      /\ inflight = {} /\ updateQueue = << >>
      /\ Len(delivered) > 0
      /\ delivered[Len(delivered)].text
      /\ delivered[Len(delivered)].turnComplete
      /\ ~delivered[Len(delivered)].audio )
    => isNewTurnRef

\* C30: after stop() has run and until the next start(), no captured frame
\* is sent to, or chained on, a transport session.
C30_NoFrameAfterStop ==
    [][\A k \in Calls :
          (CaptureFrame(k) /\ nStarts = 1 /\ ~isSessionActive) =>
              ~ ( /\ sessionPromiseRef # 0
                  /\ session[sessionPromiseRef] \in {"pending", "open"} )]_vars

C23_ActiveHandles ==
    [][ /\ sourcesRef' \subseteq ScheduledIds' \ (stopped' \cup endedFired')
        /\ \A id \in ScheduledIds \ sourcesRef : id \notin sourcesRef' ]_vars

\* C23, the case: a handle was force-stopped and has left the set while a
\* handle scheduled later is active.
C23_Witness ==
    /\ \E id \in ScheduledIds : id \in stopped /\ id \notin sourcesRef
    /\ sourcesRef # {}

IsPrefix(a, b) == Len(a) <= Len(b) /\ SubSeq(b, 1, Len(a)) = a

\* C25: within one session the transcript is append-only: its length never
\* decreases, an entry that is not the last one never changes, and the last
\* one changes only by text appended to an entry of the model while
\* isNewTurn is false.
C25_AppendOnly ==
    [][nStarts' = nStarts =>
          LET n == Len(transcript) IN
          /\ Len(transcript') >= n
          /\ \A e \in 1..(n - 1) : transcript'[e] = transcript[e]
          /\ n > 0 =>
                /\ transcript'[n].speaker = transcript[n].speaker
                /\ IsPrefix(transcript[n].text, transcript'[n].text)
                /\ transcript'[n] # transcript[n] =>
                      ~isNewTurnRef /\ transcript[n].speaker = "model"]_vars

\* C25, the case: text was appended to the last entry.
C25_Witness ==
    \E e \in 1..Len(transcript) : Len(transcript[e].text) >= 2

====
